---- MODULE Spec2Model ----
(***************************************************************************)
(* Real-Time Multilingual Query Handler.                                   *)
(*                                                                         *)
(* A model of the Streamlit application (app.py), the FastAPI backend      *)
(* (backend/server.py, backend/translation_engine.py,                      *)
(* backend/response_generator.py) and the evaluation store                 *)
(* (utils/evaluation.py).                                                  *)
(*                                                                         *)
(* Texts are sequences of one-character strings.  The evaluation log file  *)
(* is a sequence of JSON tokens, written by dumps and read back by loads.  *)
(***************************************************************************)
EXTENDS Integers, Sequences, FiniteSets, TLC

(***************************************************************************)
(* Bounds of the model.                                                    *)
(***************************************************************************)
MaxSaves == 3
MaxSaveClicks == 2
MaxRequests == 3

(***************************************************************************)
(* Text helpers.                                                           *)
(***************************************************************************)
EXCERPT_LEN == 120

QUOTE == "\""
BACKSLASH == "\\"
NL == "\n"
SPACE == " "

Take(s, n) == SubSeq(s, 1, IF Len(s) < n THEN Len(s) ELSE n)

RECURSIVE LStrip(_)
LStrip(s) == IF s # <<>> /\ Head(s) \in {SPACE, NL} THEN LStrip(Tail(s)) ELSE s

RECURSIVE RStrip(_)
RStrip(s) ==
    IF s # <<>> /\ s[Len(s)] \in {SPACE, NL} THEN RStrip(SubSeq(s, 1, Len(s) - 1)) ELSE s

\* str.strip()
Strip(s) == RStrip(LStrip(s))

\* Python truthiness of a str
Truthy(s) == s # <<>>

(***************************************************************************)
(* json.dumps(data, indent=2) on a list of flat dicts of str and int.      *)
(***************************************************************************)
Digits == <<"0", "1", "2", "3", "4", "5", "6", "7", "8", "9">>

IntTok(n) == Digits[n + 1]

IsDigit(t) == \E d \in 1..Len(Digits) : Digits[d] = t

IntOf(t) == (CHOOSE d \in 1..Len(Digits) : Digits[d] = t) - 1

RECURSIVE Escape(_)
Escape(s) ==
    IF s = <<>> THEN <<>>
    ELSE IF Head(s) \in {QUOTE, BACKSLASH} THEN <<BACKSLASH, Head(s)>> \o Escape(Tail(s))
    ELSE <<Head(s)>> \o Escape(Tail(s))

DumpStr(s) == <<QUOTE>> \o Escape(s) \o <<QUOTE>>

\* the keys of an Evaluation Entry, in the order the handler builds the dict
EntryKeys == <<"input", "detected_language", "translated", "suggested", "rating", "comments">>

\* the one int-valued key of an Evaluation Entry (int(rating)); the others are str
IntKeys == {"rating"}

DumpScalar(key, v) == IF key \in IntKeys THEN <<IntTok(v)>> ELSE DumpStr(v)

RECURSIVE DumpMembers(_, _)
DumpMembers(e, k) ==
    IF k > Len(EntryKeys) THEN <<>>
    ELSE DumpStr(<<EntryKeys[k]>>) \o <<":">> \o DumpScalar(EntryKeys[k], e[EntryKeys[k]])
         \o (IF k < Len(EntryKeys) THEN <<",", NL>> ELSE <<>>)
         \o DumpMembers(e, k + 1)

DumpEntry(e) == <<"{", NL>> \o DumpMembers(e, 1) \o <<NL, "}">>

RECURSIVE DumpItems(_)
DumpItems(data) ==
    IF data = <<>> THEN <<>>
    ELSE DumpEntry(Head(data))
         \o (IF Len(data) > 1 THEN <<",", NL>> ELSE <<>>)
         \o DumpItems(Tail(data))

dumps(data) ==
    IF data = <<>> THEN <<"[", "]">>
    ELSE <<"[", NL>> \o DumpItems(data) \o <<NL, "]">>

(***************************************************************************)
(* json.loads: a parse result is [ok, kind, val, next]; ok = FALSE stands  *)
(* for json.JSONDecodeError.                                               *)
(***************************************************************************)
ParseFail == [ok |-> FALSE, kind |-> "none", val |-> <<>>, next |-> 0]

ParseOk(k, v, n) == [ok |-> TRUE, kind |-> k, val |-> v, next |-> n]

RECURSIVE SkipWs(_, _)
SkipWs(s, i) == IF i <= Len(s) /\ s[i] \in {NL, SPACE} THEN SkipWs(s, i + 1) ELSE i

RECURSIVE ReadChars(_, _, _)
ReadChars(s, j, acc) ==
    IF j > Len(s) THEN ParseFail
    ELSE IF s[j] = QUOTE THEN ParseOk("str", acc, j + 1)
    ELSE IF s[j] = BACKSLASH
         THEN IF j + 1 <= Len(s) /\ s[j + 1] \in {QUOTE, BACKSLASH}
              THEN ReadChars(s, j + 2, Append(acc, s[j + 1]))
              ELSE ParseFail
    ELSE ReadChars(s, j + 1, Append(acc, s[j]))

ParseScalar(s, i) ==
    IF i > Len(s) THEN ParseFail
    ELSE IF s[i] = QUOTE THEN ReadChars(s, i + 1, <<>>)
    ELSE IF IsDigit(s[i]) THEN ParseOk("int", IntOf(s[i]), i + 1)
    ELSE ParseFail

\* the members of an object after the opening brace; acc is the dict so far
RECURSIVE ParseMembers(_, _, _, _)

MemberEnd(s, d, e) ==
    IF e > Len(s) THEN ParseFail
    ELSE IF s[e] = "}" THEN ParseOk("object", d, e + 1)
    ELSE IF s[e] = "," THEN ParseMembers(s, e + 1, d, FALSE)
    ELSE ParseFail

MemberValue(s, acc, first, key, v) ==
    IF ~v.ok THEN ParseFail
    ELSE MemberEnd(s, IF first THEN key :> v.val ELSE (key :> v.val) @@ acc,
                   SkipWs(s, v.next))

MemberColon(s, acc, first, key, c) ==
    IF c > Len(s) \/ s[c] # ":" THEN ParseFail
    ELSE MemberValue(s, acc, first, key, ParseScalar(s, SkipWs(s, c + 1)))

MemberKey(s, acc, first, k) ==
    IF ~k.ok \/ k.kind # "str" \/ Len(k.val) # 1 THEN ParseFail
    ELSE MemberColon(s, acc, first, k.val[1], SkipWs(s, k.next))

ParseMembers(s, i, acc, first) == MemberKey(s, acc, first, ParseScalar(s, SkipWs(s, i)))

ParseItem(s, i) ==
    IF i > Len(s) THEN ParseFail
    ELSE IF s[i] = "{" THEN ParseMembers(s, i + 1, <<>>, TRUE)
    ELSE ParseScalar(s, i)

\* the items of a list after the opening bracket; acc is the list so far
RECURSIVE ParseItems(_, _, _)

ItemEnd(s, acc, e) ==
    IF e > Len(s) THEN ParseFail
    ELSE IF s[e] = "]" THEN ParseOk("list", acc, e + 1)
    ELSE IF s[e] = "," THEN ParseItems(s, e + 1, acc)
    ELSE ParseFail

ItemValue(s, acc, v) ==
    IF ~v.ok THEN ParseFail ELSE ItemEnd(s, Append(acc, v.val), SkipWs(s, v.next))

ParseItems(s, i, acc) == ItemValue(s, acc, ParseItem(s, SkipWs(s, i)))

ListBody(s, j) ==
    IF j <= Len(s) /\ s[j] = "]" THEN ParseOk("list", <<>>, j + 1)
    ELSE ParseItems(s, j, <<>>)

ParseTop(s, i) ==
    IF i > Len(s) THEN ParseFail
    ELSE IF s[i] = "[" THEN ListBody(s, SkipWs(s, i + 1))
    ELSE ParseItem(s, i)

\* nothing but white space may follow the value
WholeDocument(s, r) == IF r.ok /\ SkipWs(s, r.next) > Len(s) THEN r ELSE ParseFail

loads(s) == WholeDocument(s, ParseTop(s, SkipWs(s, 1)))

(***************************************************************************)
(* The state.                                                              *)
(***************************************************************************)
VARIABLES
    file,         \* data/evaluations.json (utils/evaluation.py DATA_FILE)
    fileLocal,    \* data/evaluations_local.json (the application's own fallback)
    saved,        \* the entries save_evaluation has appended, in call order
    pure,         \* the log started missing and only successful saves touched it
    loaded,       \* the outcome of the last load_evaluations call
    hs,           \* the outcome of the last run of the Save evaluation handler
    nSaves,       \* number of save calls made so far
    sess,         \* two sessions inside save_evaluation: position, data read, entry
    overlap,      \* both sessions had read the log before either wrote it
    writers,      \* the sessions in the order in which they wrote the log
    base,         \* the list the log held before the two concurrent saves
    OPENAI_API_KEY,     \* app.py: the key the application read at start
    BE_OPENAI_API_KEY,  \* backend: the key the service read at start
    settings,     \* sidebar widgets
    form,         \* the widgets of incoming_form
    evalw,        \* rating slider and comments text area
    pc,           \* position of the script run
    run,          \* the script's variables of the current run
    calls,        \* the calls the script made in the current run, in order
    lmRequests,   \* requests sent to the language-model provider in the current run
    evalShown,    \* the last run rendered the evaluation block
    saveClicks,   \* completed reruns that a click on Save evaluation triggered
    trigger,      \* the button whose click triggered the current run
    submitted,    \* the entry on display after the last processed submission
    lastResp,     \* backend: the last request served and its response
    served        \* backend: number of requests served

storeVars == <<file, fileLocal, saved, pure, loaded, hs, nSaves>>
raceVars == <<sess, overlap, writers, base>>
appVars == <<OPENAI_API_KEY, BE_OPENAI_API_KEY, settings, form, evalw, pc, run, calls,
             lmRequests, evalShown, saveClicks, trigger, submitted>>
beVars == <<lastResp, served>>
vars == <<storeVars, raceVars, appVars, beVars>>

(***************************************************************************)
(* utils/evaluation.py: the evaluation store.                              *)
(***************************************************************************)
Missing == [exists |-> FALSE, content |-> <<>>]

FileOf(c) == [exists |-> TRUE, content |-> c]

\* Path.write_text: the file is opened (truncated), written and closed.
\* "open_fails" leaves the file as it was, "write_fails" leaves it truncated.
WriteOutcomes == {"ok", "open_fails", "write_fails"}

WriteText(f, content, wr) ==
    IF wr = "ok" THEN [file |-> FileOf(content), raised |-> FALSE]
    ELSE IF wr = "open_fails" THEN [file |-> f, raised |-> TRUE]
    ELSE [file |-> FileOf(<<>>), raised |-> TRUE]

\* try: data = json.loads(...) except Exception: data = []
ParsedOrEmpty(r) ==
    IF r.ok THEN [kind |-> r.kind, val |-> r.val] ELSE [kind |-> "list", val |-> <<>>]

\* save_evaluation, the read step: data = [] unless the file exists and parses
ReadData(f) ==
    IF ~f.exists THEN [kind |-> "list", val |-> <<>>] ELSE ParsedOrEmpty(loads(f.content))

\* AppendEntry putting the new entry first
AppendEntry_first(data, entry) == <<entry>> \o data

\* data.append(entry)
AppendEntry(data, entry) == Append(data, entry)

\* save_evaluation, the write step; data.append raises on a value that is no list
WriteData(f, d, entry, wr) ==
    IF d.kind # "list" THEN [file |-> f, raised |-> TRUE]
    ELSE WriteText(f, dumps(AppendEntry(d.val, entry)), wr)

save_evaluation(f, entry, wr) == WriteData(f, ReadData(f), entry, wr)

\* return json.loads(...): a parse error is raised to the caller
ParsedOrRaise(r) ==
    IF r.ok THEN [called |-> TRUE, raised |-> FALSE, kind |-> r.kind, val |-> r.val]
    ELSE [called |-> TRUE, raised |-> TRUE, kind |-> "none", val |-> <<>>]

load_evaluations(f) ==
    IF ~f.exists THEN [called |-> TRUE, raised |-> FALSE, kind |-> "list", val |-> <<>>]
    ELSE ParsedOrRaise(loads(f.content))

NotLoaded == [called |-> FALSE, raised |-> FALSE, kind |-> "none", val |-> <<>>]

(***************************************************************************)
(* app.py: save_evaluation_local and the Save evaluation handler.          *)
(***************************************************************************)
\* except Exception: the same read-append-write on data/evaluations_local.json,
\* whose own failure is not caught
LocalFallback(f, q) ==
    [file |-> f, fileLocal |-> q.file, raised |-> q.raised, primaryRaised |-> TRUE]

\* try: save_evaluation(entry)
PrimaryOrFallback(r, fl, entry, wrLocal) ==
    IF ~r.raised
    THEN [file |-> r.file, fileLocal |-> fl, raised |-> FALSE, primaryRaised |-> FALSE]
    ELSE LocalFallback(r.file, WriteData(fl, ReadData(fl), entry, wrLocal))

save_evaluation_local(f, fl, entry, wr, wrLocal) ==
    PrimaryOrFallback(save_evaluation(f, entry, wr), fl, entry, wrLocal)

\* try: save_evaluation_local(entry); st.success(...) except: st.error(...)
BannerOf(r) ==
    [file |-> r.file, fileLocal |-> r.fileLocal, primaryRaised |-> r.primaryRaised,
     banner |-> IF r.raised THEN "error" ELSE "saved"]

SaveHandlerResult(f, fl, entry, wr, wrLocal) ==
    BannerOf(save_evaluation_local(f, fl, entry, wr, wrLocal))

NoHandler == [ran |-> FALSE, primaryWriteFailed |-> FALSE, banner |-> "none"]

(***************************************************************************)
(* Inputs: texts, names, and what the language-model provider answers.     *)
(***************************************************************************)
T_EMPTY == <<>>
T_BLANK == <<SPACE, SPACE>>
T_PAD == <<SPACE, "s", "i", SPACE>>
T_QUOTED == <<"a", QUOTE>>
\* a text longer than the excerpt of the canned reply
T_LONG == [i \in 1..(EXCERPT_LEN + 2) |-> IF i <= EXCERPT_LEN THEN "x" ELSE "y"]

Texts == {T_EMPTY, T_BLANK, T_PAD, T_LONG}

Names == {<<>>, <<"B", "o">>}

Langs == {<<"u", "n", "k", "n", "o", "w", "n">>, <<"e", "s">>}

\* a chat completion either raises or returns the content of the first choice
LMOutcomes == {[raises |-> TRUE, content |-> <<>>],
               [raises |-> FALSE, content |-> <<SPACE>>],
               [raises |-> FALSE, content |-> <<SPACE, "o", "k", NL>>]}

NoError == ""

Ok(v, n) == [raised |-> FALSE, val |-> v, msg |-> NoError, req |-> n]

Raise(m, n) == [raised |-> TRUE, val |-> <<>>, msg |-> m, req |-> n]

(***************************************************************************)
(* utils.prompts and backend/response_generator.py.                        *)
(***************************************************************************)
TemplateHead == <<"H", "i", SPACE>>
TemplateMid == <<":", SPACE>>
TemplateTail == <<".">>

\* CANNED_REPLY_TEMPLATE.format(name=..., excerpt=...)
CANNED_REPLY_TEMPLATE(name, excerpt) ==
    TemplateHead \o name \o TemplateMid \o excerpt \o TemplateTail

CUSTOMER == <<"C", "u", "s", "t", "o", "m", "e", "r">>

\* name or "Customer"
NameOrCustomer(name) == IF Truthy(name) THEN name ELSE CUSTOMER

be_generate_local_reply(translated_text, name) ==
    CANNED_REPLY_TEMPLATE(NameOrCustomer(name), Take(translated_text, EXCERPT_LEN))

be_generate_openai_reply(translated_text, name, key, out) ==
    IF ~key THEN Raise("OpenAI key not configured", 0)
    ELSE IF out.raises THEN Raise("openai error", 1)
    ELSE Ok(Strip(out.content), 1)

(***************************************************************************)
(* backend/translation_engine.py.                                          *)
(***************************************************************************)
be_translate_local(text) == text

\* be_translate_openai without the test of the key
be_translate_openai_no_key_test(text, key, out) ==
    IF out.raises THEN Raise("openai error", 1) ELSE Ok(Strip(out.content), 1)

be_translate_openai(text, key, out) ==
    IF ~key THEN Raise("OpenAI key not configured", 0)
    ELSE IF out.raises THEN Raise("openai error", 1)
    ELSE Ok(Strip(out.content), 1)

(***************************************************************************)
(* backend/server.py: the two endpoints.  A response is the status, the    *)
(* JSON body and the number of provider requests the endpoint sent.        *)
(***************************************************************************)
server_translate(text, key, out) ==
    LET r == be_translate_openai(text, key, out) IN
    [status |-> 200, req |-> r.req,
     body |-> [translated_text |-> IF r.raised THEN be_translate_local(text) ELSE r.val]]

\* server_response with the excerpt left at full length
server_response_whole_text(translated_text, name, key, out) ==
    LET r == be_generate_openai_reply(translated_text, name, key, out) IN
    [status |-> 200, req |-> r.req,
     body |-> [reply |-> IF r.raised
                         THEN CANNED_REPLY_TEMPLATE(NameOrCustomer(name), translated_text)
                         ELSE r.val]]

server_response(translated_text, name, key, out) ==
    LET r == be_generate_openai_reply(translated_text, name, key, out) IN
    [status |-> 200, req |-> r.req,
     body |-> [reply |-> IF r.raised
                         THEN CANNED_REPLY_TEMPLATE(NameOrCustomer(name),
                                                    Take(translated_text, EXCERPT_LEN))
                         ELSE r.val]]

(***************************************************************************)
(* app.py: utility functions.  reach says whether the HTTP call to the     *)
(* backend succeeds (connection, timeout, status and body all fine).       *)
(***************************************************************************)
call_remote_translate(text, reach, beKey, beOut) ==
    IF ~reach THEN Raise("Remote translation failed", 0)
    ELSE LET resp == server_translate(text, beKey, beOut) IN
         Ok(resp.body.translated_text, resp.req)

call_remote_response(translated_text, name, reach, beKey, beOut) ==
    IF ~reach THEN Raise("Remote response generation failed", 0)
    ELSE LET resp == server_response(translated_text, name, beKey, beOut) IN
         Ok(resp.body.reply, resp.req)

\* backend.translation_engine.translate_local, or the input itself
translate_local(text) == be_translate_local(text)

\* backend.response_generator.generate_local_reply, which formats the template
generate_local_reply(translated_text, name) == be_generate_local_reply(translated_text, name)

translate_with_openai(text, key, out) ==
    IF ~key THEN Raise("OpenAI API key not configured.", 0)
    ELSE IF out.raises THEN Raise("OpenAI translation failed", 1)
    ELSE Ok(Strip(out.content), 1)

generate_reply_with_openai(translated_text, name, key, out) ==
    IF ~key THEN Raise("OpenAI API key not configured.", 0)
    ELSE IF out.raises THEN Raise("OpenAI response generation failed", 1)
    ELSE Ok(Strip(out.content), 1)

(***************************************************************************)
(* app.py: the widgets.                                                    *)
(***************************************************************************)
REMOTE == "remote (FastAPI)"
AI_MODE == "AI-generated (if available)"
CANNED_MODE == "Canned (template)"

BackendChoices == {REMOTE, "local"}
TranslationBackends == {"auto", "openai", "local"}
ResponseModes == {AI_MODE, CANNED_MODE}

Settings == [backend_choice : BackendChoices, translation_backend : TranslationBackends,
             response_mode : ResponseModes]

\* the first option of each selectbox
DefaultSettings == [backend_choice |-> REMOTE, translation_backend |-> "auto",
                    response_mode |-> AI_MODE]

DefaultForm == [customer_name |-> <<>>, incoming_text |-> <<>>, want_generate |-> TRUE]

DEFAULT_RATING == 4

DefaultEval == [rating |-> DEFAULT_RATING, comments |-> <<>>]

Ratings == 1..5

\* backend_choice.startswith("remote")
IsRemote(choice) == choice = REMOTE

\* response_mode.startswith("AI") or response_mode == "AI-generated (if available)"
IsAIMode(mode) == mode = AI_MODE

\* translated = "", suggested = "", detected_lang = "unknown"
DefaultRun == [detected_lang |-> <<"u", "n", "k", "n", "o", "w", "n">>, translated |-> <<>>,
               suggested |-> <<>>, translate_error |-> NoError, gen_error |-> NoError]

Call(fn, r) == [fn |-> fn, raised |-> r.raised, val |-> r.val]

(***************************************************************************)
(* app.py: step 2, translation resolution.                                 *)
(***************************************************************************)
\* RemoteFallbackStrategy taking the openai preference without looking at the key
RemoteFallbackStrategy_no_key_test(tb, key) ==
    IF tb = "openai" THEN "openai"
    ELSE IF tb = "local" THEN "local"
    ELSE IF key THEN "openai"
    ELSE "local"

\* the branch taken after call_remote_translate raised
RemoteFallbackStrategy(tb, key) ==
    IF tb = "openai" /\ key THEN "openai"
    ELSE IF tb = "local" THEN "local"
    ELSE IF key THEN "openai"
    ELSE "local"

\* the branch taken when the backend choice is local
LocalStrategy(tb, key) ==
    IF tb = "openai" /\ key THEN "openai" ELSE "local"

TranslateBy(strategy, text, key, out) ==
    IF strategy = "openai"
    THEN LET r == translate_with_openai(text, key, out) IN
         [r |-> r, call |-> Call("translate_with_openai", r)]
    ELSE LET r == Ok(translate_local(text), 0) IN
         [r |-> r, call |-> Call("translate_local", r)]

\* translate_error = f"Remote translation failed: {e_remote}"
REMOTE_FAILED == "Remote translation failed: Remote translation failed"

\* the outcome of the try block: [translated, translate_error, calls, req]
ResolveTranslation(text, st, key, beKey, reach, beOut, appOut) ==
    IF IsRemote(st.backend_choice)
    THEN LET rt == call_remote_translate(text, reach, beKey, beOut) IN
         IF ~rt.raised
         THEN [translated |-> rt.val, translate_error |-> NoError,
               calls |-> <<Call("call_remote_translate", rt)>>, req |-> rt.req]
         ELSE LET fb == TranslateBy(RemoteFallbackStrategy(st.translation_backend, key),
                                    text, key, appOut)
              IN  [translated |-> IF fb.r.raised THEN <<>> ELSE fb.r.val,
                   translate_error |-> IF fb.r.raised THEN fb.r.msg ELSE REMOTE_FAILED,
                   calls |-> <<Call("call_remote_translate", rt), fb.call>>,
                   req |-> rt.req + fb.r.req]
    ELSE LET lt == TranslateBy(LocalStrategy(st.translation_backend, key), text, key, appOut)
         IN  [translated |-> IF lt.r.raised THEN <<>> ELSE lt.r.val,
              translate_error |-> IF lt.r.raised THEN lt.r.msg ELSE NoError,
              calls |-> <<lt.call>>, req |-> lt.r.req]

(***************************************************************************)
(* app.py: step 3, the suggested reply.                                    *)
(***************************************************************************)
\* ReplyGate that lets every translation through
ReplyGate_open(translated) == TRUE

\* if translated:
ReplyGate(translated) == Truthy(translated)

ReplyBy(strategy, translated, name, key, out) ==
    IF strategy = "openai"
    THEN LET r == generate_reply_with_openai(translated, name, key, out) IN
         [r |-> r, call |-> Call("generate_reply_with_openai", r)]
    ELSE LET r == Ok(generate_local_reply(translated, name), 0) IN
         [r |-> r, call |-> Call("generate_local_reply", r)]

\* the outcome of the reply block: [suggested, gen_error, calls, req]
GenerateReply(translated, name, st, key, beKey, reach, beOut, appOut) ==
    IF IsAIMode(st.response_mode)
    THEN IF IsRemote(st.backend_choice)
         THEN LET rr == call_remote_response(translated, name, reach, beKey, beOut) IN
              IF ~rr.raised
              THEN [suggested |-> rr.val, gen_error |-> NoError,
                    calls |-> <<Call("call_remote_response", rr)>>, req |-> rr.req]
              ELSE LET fb == ReplyBy(IF key THEN "openai" ELSE "local",
                                     translated, name, key, appOut)
                   IN  [suggested |-> IF fb.r.raised THEN <<>> ELSE fb.r.val,
                        gen_error |-> IF fb.r.raised THEN fb.r.msg ELSE NoError,
                        calls |-> <<Call("call_remote_response", rr), fb.call>>,
                        req |-> rr.req + fb.r.req]
         ELSE LET lr == ReplyBy(LocalStrategy(st.translation_backend, key),
                                translated, name, key, appOut)
              IN  [suggested |-> IF lr.r.raised THEN <<>> ELSE lr.r.val,
                   gen_error |-> IF lr.r.raised THEN lr.r.msg ELSE NoError,
                   calls |-> <<lr.call>>, req |-> lr.r.req]
    ELSE LET cr == ReplyBy("local", translated, name, key, appOut)
         IN  [suggested |-> cr.r.val, gen_error |-> NoError,
              calls |-> <<cr.call>>, req |-> 0]

TranslateCalls == {"call_remote_translate", "translate_with_openai", "translate_local"}

ReplyCalls == {"call_remote_response", "generate_reply_with_openai", "generate_local_reply"}

(***************************************************************************)
(* The Interactive Application under Streamlit's execution model: every    *)
(* widget interaction reruns the script from the top, and a button reads   *)
(* True only in the run that its own click triggered.                      *)
(***************************************************************************)
Comments == {<<>>, <<"o", "k">>}

NoEntry == [input |-> <<>>, detected_language |-> <<>>, translated |-> <<>>,
            suggested |-> <<>>, rating |-> 0, comments |-> <<>>]

\* the dict the Save evaluation handler assembles
EntryOf(f, r, e) ==
    [input |-> f.incoming_text, detected_language |-> r.detected_lang,
     translated |-> r.translated, suggested |-> r.suggested,
     rating |-> e.rating, comments |-> e.comments]

InitStore ==
    /\ fileLocal = Missing
    /\ saved = <<>>
    /\ loaded = NotLoaded
    /\ hs = NoHandler
    /\ nSaves = 0

InitRace ==
    /\ sess = [p \in {1, 2} |-> [pc |-> "idle", data |-> <<>>, entry |-> NoEntry]]
    /\ overlap = FALSE
    /\ writers = <<>>
    /\ base = <<>>

InitApp ==
    /\ settings = DefaultSettings
    /\ form = DefaultForm
    /\ evalw = DefaultEval
    /\ pc = "idle"
    /\ run = DefaultRun
    /\ calls = <<>>
    /\ lmRequests = 0
    /\ evalShown = FALSE
    /\ saveClicks = 0
    /\ trigger = "none"
    /\ submitted = NoEntry

InitBackend ==
    /\ lastResp = [endpoint |-> "none", text |-> <<>>, name |-> <<>>,
                   out |-> [raises |-> TRUE, content |-> <<>>], status |-> 0, body |-> <<>>]
    /\ served = 0

Init ==
    /\ OPENAI_API_KEY \in BOOLEAN
    /\ BE_OPENAI_API_KEY \in BOOLEAN
    /\ file = Missing
    /\ pure = TRUE
    /\ InitStore
    /\ InitRace
    /\ InitApp
    /\ InitBackend

\* lines 153-183: the top of the script up to the test of submit_btn.  ev is
\* what the rating and comments widgets hold during this run; a run that
\* processes a submission creates them anew with their defaults.
RunScript(trig, f, lang, ev) ==
    /\ trigger' = trig
    /\ calls' = <<>>
    /\ lmRequests' = 0
    /\ evalShown' = FALSE
    /\ IF trig = "submit" /\ Truthy(Strip(f.incoming_text))
       THEN /\ run' = [DefaultRun EXCEPT !.detected_lang = lang]
            /\ evalw' = DefaultEval
            /\ pc' = "translate"
       ELSE /\ run' = DefaultRun
            /\ evalw' = ev
            /\ pc' = "idle"

\* the operator presses Translate & Process
Submit(name, text, want, lang) ==
    /\ pc = "idle"
    /\ form' = [customer_name |-> name, incoming_text |-> text, want_generate |-> want]
    /\ RunScript("submit", form', lang, DefaultEval)
    /\ submitted' = NoEntry
    /\ UNCHANGED <<settings, saveClicks, OPENAI_API_KEY, BE_OPENAI_API_KEY>>
    /\ UNCHANGED <<storeVars, raceVars, beVars>>

\* the operator changes a sidebar widget
ChangeSettings(st) ==
    /\ pc = "idle"
    /\ st # settings
    /\ settings' = st
    /\ RunScript("none", form, DefaultRun.detected_lang, DefaultEval)
    /\ submitted' = NoEntry
    /\ UNCHANGED <<form, saveClicks, OPENAI_API_KEY, BE_OPENAI_API_KEY>>
    /\ UNCHANGED <<storeVars, raceVars, beVars>>

\* the operator moves the rating slider or edits the comments
ChangeEval(r, c) ==
    /\ pc = "idle"
    /\ evalShown
    /\ [rating |-> r, comments |-> c] # evalw
    /\ RunScript("none", form, DefaultRun.detected_lang, [rating |-> r, comments |-> c])
    /\ submitted' = NoEntry
    /\ UNCHANGED <<form, settings, saveClicks, OPENAI_API_KEY, BE_OPENAI_API_KEY>>
    /\ UNCHANGED <<storeVars, raceVars, beVars>>

\* the operator presses Save evaluation
ClickSave ==
    /\ pc = "idle"
    /\ evalShown
    /\ saveClicks < MaxSaveClicks
    /\ saveClicks' = saveClicks + 1
    /\ RunScript("save", form, DefaultRun.detected_lang, evalw)
    /\ UNCHANGED <<form, settings, submitted, OPENAI_API_KEY, BE_OPENAI_API_KEY>>
    /\ UNCHANGED <<storeVars, raceVars, beVars>>

\* lines 189-220
Translate ==
    /\ pc = "translate"
    /\ \E reach \in BOOLEAN, beOut \in LMOutcomes, appOut \in LMOutcomes :
         LET r == ResolveTranslation(form.incoming_text, settings, OPENAI_API_KEY,
                                     BE_OPENAI_API_KEY, reach, beOut, appOut)
         IN  /\ run' = [run EXCEPT !.translated = r.translated,
                                   !.translate_error = r.translate_error]
             /\ calls' = r.calls
             /\ lmRequests' = r.req
    /\ pc' = "reply"
    /\ UNCHANGED <<settings, form, evalw, evalShown, saveClicks, trigger, submitted,
                   OPENAI_API_KEY, BE_OPENAI_API_KEY>>
    /\ UNCHANGED <<storeVars, raceVars, beVars>>

\* lines 222-263
Reply ==
    /\ pc = "reply"
    /\ IF ReplyGate(run.translated) /\ form.want_generate
       THEN \E reach \in BOOLEAN, beOut \in LMOutcomes, appOut \in LMOutcomes :
              LET r == GenerateReply(run.translated, form.customer_name, settings,
                                     OPENAI_API_KEY, BE_OPENAI_API_KEY, reach, beOut, appOut)
              IN  /\ run' = [run EXCEPT !.suggested = r.suggested, !.gen_error = r.gen_error]
                  /\ calls' = calls \o r.calls
                  /\ lmRequests' = lmRequests + r.req
       ELSE UNCHANGED <<run, calls, lmRequests>>
    /\ pc' = "eval"
    /\ UNCHANGED <<settings, form, evalw, evalShown, saveClicks, trigger, submitted,
                   OPENAI_API_KEY, BE_OPENAI_API_KEY>>
    /\ UNCHANGED <<storeVars, raceVars, beVars>>

\* lines 265-283: the evaluation block, rendered inside "if submit_btn:"
RenderEvaluation ==
    /\ pc = "eval"
    /\ IF trigger = "save"
       THEN \E wr \in WriteOutcomes, wrLocal \in WriteOutcomes :
              LET h == SaveHandlerResult(file, fileLocal, EntryOf(form, run, evalw),
                                         wr, wrLocal)
              IN  /\ file' = h.file
                  /\ fileLocal' = h.fileLocal
                  /\ hs' = [ran |-> TRUE, primaryWriteFailed |-> h.primaryRaised,
                            banner |-> h.banner]
       ELSE UNCHANGED <<file, fileLocal, hs>>
    /\ submitted' = EntryOf(form, run, evalw)
    /\ evalShown' = TRUE
    /\ pc' = "idle"
    /\ UNCHANGED <<settings, form, evalw, run, calls, lmRequests, saveClicks, trigger,
                   OPENAI_API_KEY, BE_OPENAI_API_KEY>>
    /\ UNCHANGED <<saved, pure, loaded, nSaves, raceVars, beVars>>

Next ==
    \/ \E name \in Names, text \in Texts, want \in BOOLEAN, lang \in Langs :
         Submit(name, text, want, lang)
    \/ \E st \in Settings : ChangeSettings(st)
    \/ \E r \in Ratings, c \in Comments : ChangeEval(r, c)
    \/ ClickSave
    \/ Translate
    \/ Reply
    \/ RenderEvaluation

Spec == Init /\ [][Next]_vars

(***************************************************************************)
(* The evaluation store on its own: save_evaluation, load_evaluations and  *)
(* the Save evaluation handler called one after the other on a log that    *)
(* starts missing, empty, malformed or well formed.                        *)
(***************************************************************************)
E_A == [input |-> T_PAD, detected_language |-> <<"e", "s">>, translated |-> T_PAD,
        suggested |-> <<>>, rating |-> DEFAULT_RATING, comments |-> <<>>]

E_B == [input |-> T_QUOTED, detected_language |-> <<"u", "n", "k", "n", "o", "w", "n">>,
        translated |-> <<"o", "k">>, suggested |-> <<"H", "i", SPACE, BACKSLASH>>,
        rating |-> 5, comments |-> <<QUOTE, "o", "k", QUOTE>>]

E_C == [input |-> <<"s", "i">>, detected_language |-> <<"e", "s">>, translated |-> <<"s", "i">>,
        suggested |-> generate_local_reply(<<"s", "i">>, <<>>),
        rating |-> 1, comments |-> <<>>]

SampleEntries == {E_A, E_B, E_C}

MALFORMED == <<"{", "o", "o", "p", "s">>

InitialFiles == {Missing, FileOf(<<>>), FileOf(MALFORMED), FileOf(<<"4">>),
                 FileOf(dumps(<<>>))}

InitStoreOnly ==
    /\ OPENAI_API_KEY = FALSE
    /\ BE_OPENAI_API_KEY = FALSE
    /\ file \in InitialFiles
    /\ pure = (file = Missing)
    /\ InitStore
    /\ InitRace
    /\ InitApp
    /\ InitBackend

\* a call of save_evaluation(entry)
SaveEvaluation(entry, wr) ==
    /\ nSaves < MaxSaves
    /\ nSaves' = nSaves + 1
    /\ LET r == save_evaluation(file, entry, wr) IN
         /\ file' = r.file
         /\ saved' = IF r.raised THEN saved ELSE Append(saved, entry)
         /\ pure' = (pure /\ ~r.raised)
    /\ loaded' = NotLoaded
    /\ UNCHANGED <<fileLocal, hs, raceVars, appVars, beVars>>

\* a call of load_evaluations()
LoadEvaluations ==
    /\ loaded' = load_evaluations(file)
    /\ UNCHANGED <<file, fileLocal, saved, pure, hs, nSaves, raceVars, appVars, beVars>>

\* the body of "if st.button('Save evaluation'):" run on an entry
SaveHandler(entry, wr, wrLocal) ==
    /\ nSaves < MaxSaves
    /\ nSaves' = nSaves + 1
    /\ LET h == SaveHandlerResult(file, fileLocal, entry, wr, wrLocal) IN
         /\ file' = h.file
         /\ fileLocal' = h.fileLocal
         /\ saved' = IF h.primaryRaised THEN saved ELSE Append(saved, entry)
         /\ pure' = (pure /\ ~h.primaryRaised)
         /\ hs' = [ran |-> TRUE,
                   primaryWriteFailed |-> ReadData(file).kind = "list" /\ wr # "ok",
                   banner |-> h.banner]
    /\ loaded' = NotLoaded
    /\ UNCHANGED <<raceVars, appVars, beVars>>

NextStore ==
    \/ \E entry \in SampleEntries, wr \in WriteOutcomes : SaveEvaluation(entry, wr)
    \/ LoadEvaluations
    \/ \E entry \in SampleEntries, wr \in WriteOutcomes, wrLocal \in WriteOutcomes :
         SaveHandler(entry, wr, wrLocal)

SpecStore == InitStoreOnly /\ [][NextStore]_vars

(***************************************************************************)
(* Two sessions inside save_evaluation at once.  The function holds no     *)
(* lock, so the read of one session and the write of the other interleave. *)
(***************************************************************************)
Sessions == {1, 2}

RaceInitialFiles == {Missing, FileOf(MALFORMED), FileOf(dumps(<<E_A>>))}

InitRaceOnly ==
    /\ OPENAI_API_KEY = FALSE
    /\ BE_OPENAI_API_KEY = FALSE
    /\ file \in RaceInitialFiles
    /\ pure = (file = Missing)
    /\ InitStore
    /\ sess = [p \in Sessions |-> [pc |-> "idle", data |-> ReadData(Missing), entry |-> NoEntry]]
    /\ overlap = FALSE
    /\ writers = <<>>
    /\ base = ReadData(file).val
    /\ InitApp
    /\ InitBackend

\* lines 11-16 of save_evaluation in session p
RaceRead(p, entry) ==
    /\ sess[p].pc = "idle"
    /\ sess' = [sess EXCEPT ![p] = [pc |-> "read", data |-> ReadData(file), entry |-> entry]]
    /\ overlap' = (overlap \/ \E q \in Sessions \ {p} : sess[q].pc = "read")
    /\ UNCHANGED <<writers, base, storeVars, appVars, beVars>>

\* RaceWriteResult reading the file again at the moment of the write
RaceWriteResult_reread(f, d, entry) == WriteData(f, ReadData(f), entry, "ok")

\* lines 17-18 of save_evaluation: the file is rewritten from the data read earlier
RaceWriteResult(f, d, entry) == WriteData(f, d, entry, "ok")

RaceWrite(p) ==
    /\ sess[p].pc = "read"
    /\ file' = RaceWriteResult(file, sess[p].data, sess[p].entry).file
    /\ sess' = [sess EXCEPT ![p].pc = "done"]
    /\ writers' = Append(writers, p)
    /\ UNCHANGED <<overlap, base, fileLocal, saved, pure, loaded, hs, nSaves, appVars, beVars>>

NextRace ==
    \/ \E p \in Sessions, entry \in SampleEntries : RaceRead(p, entry)
    \/ \E p \in Sessions : RaceWrite(p)

SpecRace == InitRaceOnly /\ [][NextRace]_vars

(***************************************************************************)
(* The Backend Service on its own: clients post requests to the endpoints. *)
(***************************************************************************)
InitBackendOnly ==
    /\ OPENAI_API_KEY = FALSE
    /\ BE_OPENAI_API_KEY \in BOOLEAN
    /\ file = Missing
    /\ pure = TRUE
    /\ InitStore
    /\ InitRace
    /\ InitApp
    /\ InitBackend

PostTranslate(text, out) ==
    /\ served < MaxRequests
    /\ served' = served + 1
    /\ LET resp == server_translate(text, BE_OPENAI_API_KEY, out) IN
         lastResp' = [endpoint |-> "translate", text |-> text, name |-> <<>>, out |-> out,
                      status |-> resp.status, body |-> resp.body.translated_text]
    /\ UNCHANGED <<storeVars, raceVars, appVars>>

PostResponse(translated_text, name, out) ==
    /\ served < MaxRequests
    /\ served' = served + 1
    /\ LET resp == server_response(translated_text, name, BE_OPENAI_API_KEY, out) IN
         lastResp' = [endpoint |-> "response", text |-> translated_text, name |-> name,
                      out |-> out, status |-> resp.status, body |-> resp.body.reply]
    /\ UNCHANGED <<storeVars, raceVars, appVars>>

NextBackend ==
    \/ \E text \in Texts, out \in LMOutcomes : PostTranslate(text, out)
    \/ \E text \in Texts, name \in Names, out \in LMOutcomes : PostResponse(text, name, out)

SpecBackend == InitBackendOnly /\ [][NextBackend]_vars

(***************************************************************************)
(* Properties.                                                             *)
(***************************************************************************)
Min(a, b) == IF a < b THEN a ELSE b

\* the script is past translation resolution of a processed submission
AfterTranslation == pc \in {"reply", "eval"} \/ (pc = "idle" /\ evalShown)

\* the script is past the reply block of a processed submission
AfterReply == pc = "eval" \/ (pc = "idle" /\ evalShown)

CallsOf(fns) == {i \in DOMAIN calls : calls[i].fn \in fns}

\* the canned reply the specification describes for a text and a name
ExpectedCanned(text, name) ==
    CANNED_REPLY_TEMPLATE(IF name = <<>> THEN CUSTOMER ELSE name,
                          SubSeq(text, 1, Min(Len(text), 120)))

EntriesIn(f) == IF load_evaluations(f).kind = "list" THEN load_evaluations(f).val ELSE <<>>

\* C1: once the rerun that a click on Save evaluation triggered has finished,
\* the evaluation log holds one entry per click, and the newest entry is the
\* one on display when the operator clicked.
C1_SaveClickAppendsEntry ==
    (trigger = "save" /\ pc = "idle") =>
        /\ Len(EntriesIn(file)) + Len(EntriesIn(fileLocal)) = saveClicks
        /\ \E f \in {file, fileLocal} :
             /\ EntriesIn(f) # <<>>
             /\ EntriesIn(f)[Len(EntriesIn(f))] = submitted

\* C2: every response of the Backend Service is a success; /translate answers
\* the stripped completion when a key is set and the call returns, otherwise
\* the request's text; /response answers the stripped completion, otherwise
\* the canned template with the name (or Customer) and the first 120 characters.
C2_EndpointsNeverFail ==
    /\ lastResp.endpoint # "none" => lastResp.status = 200
    /\ lastResp.endpoint = "translate" =>
         lastResp.body = IF BE_OPENAI_API_KEY /\ ~lastResp.out.raises
                         THEN Strip(lastResp.out.content)
                         ELSE lastResp.text
    /\ lastResp.endpoint = "response" =>
         lastResp.body = IF BE_OPENAI_API_KEY /\ ~lastResp.out.raises
                         THEN Strip(lastResp.out.content)
                         ELSE ExpectedCanned(lastResp.text, lastResp.name)

\* C2 witness: /response without a key, without a name, on a text longer than the excerpt
C2_Witness ==
    /\ lastResp.endpoint = "response"
    /\ ~BE_OPENAI_API_KEY
    /\ lastResp.name = <<>>
    /\ Len(lastResp.text) > 120

\* C3: on a log that started missing and saw nothing but successful saves,
\* load_evaluations returns the saved entries, all of them, in call order.
C3_SaveLoadRoundTrip ==
    (pure /\ loaded.called) =>
        /\ ~loaded.raised
        /\ loaded.kind = "list"
        /\ Len(loaded.val) = Len(saved)
        /\ \A i \in 1..Len(saved) : loaded.val[i] = saved[i]

\* C3 witness: a load after at least two saves of different entries on a fresh log
C3_Witness ==
    /\ pure
    /\ loaded.called
    /\ Len(saved) >= 2
    /\ saved[1] # saved[2]
    /\ E_B \in {saved[i] : i \in 1..Len(saved)}

\* C4: on a log that exists and does not parse, load_evaluations returns the
\* empty list without raising, and so does the read step of save_evaluation.
C4_MalformedReadsAsEmpty ==
    (file.exists /\ ~loads(file.content).ok) =>
        /\ ReadData(file) = [kind |-> "list", val |-> <<>>]
        /\ loaded.called => (~loaded.raised /\ loaded.kind = "list" /\ loaded.val = <<>>)

\* C5: when the write of data/evaluations.json fails during the handler, the
\* operator sees the save error and no success message.
C5_WriteFailureShown ==
    (hs.ran /\ hs.primaryWriteFailed) => hs.banner = "error"

\* C6: whenever the application itself picks the translation strategy, auto
\* means the language model with a key and identity without, openai with a key
\* means the language model, local means identity.
C6_PreferenceDecides ==
    (AfterTranslation /\ CallsOf({"translate_with_openai", "translate_local"}) # {}) =>
        LET sel == calls[CHOOSE i \in CallsOf({"translate_with_openai", "translate_local"}) :
                            TRUE].fn
        IN  /\ settings.translation_backend = "auto" =>
                 sel = (IF OPENAI_API_KEY THEN "translate_with_openai" ELSE "translate_local")
            /\ (settings.translation_backend = "openai" /\ OPENAI_API_KEY) =>
                 sel = "translate_with_openai"
            /\ settings.translation_backend = "local" => sel = "translate_local"

\* C7: with no key in the application and none in the backend, no request
\* reaches the provider, the translated text is the input text, and a
\* requested reply is the canned template reply.
C7_NoKeyNoModel ==
    (~OPENAI_API_KEY /\ ~BE_OPENAI_API_KEY) =>
        /\ lmRequests = 0
        /\ AfterTranslation => run.translated = form.incoming_text
        /\ (AfterReply /\ form.want_generate) =>
             /\ run.suggested = ExpectedCanned(form.incoming_text, form.customer_name)
             /\ run.suggested # <<>>

\* C7 witness: no keys, the backend unreachable for /translate, a reply
\* requested for a text longer than the excerpt
C7_Witness ==
    /\ ~OPENAI_API_KEY
    /\ ~BE_OPENAI_API_KEY
    /\ pc = "eval"
    /\ IsRemote(settings.backend_choice)
    /\ calls[1].raised
    /\ form.want_generate
    /\ Len(form.incoming_text) > 120

ExpectedFallback ==
    IF settings.translation_backend \in {"openai", "auto"} /\ OPENAI_API_KEY
    THEN "translate_with_openai"
    ELSE "translate_local"

\* the remote branch of translation resolution; nonEmpty says which fallbacks
\* are claimed to leave a non-empty translated text when they return
RemoteResolution(nonEmpty) ==
    (AfterTranslation /\ IsRemote(settings.backend_choice)) =>
        /\ calls[1].fn = "call_remote_translate"
        /\ CallsOf({"call_remote_translate"}) = {1}
        /\ IF ~calls[1].raised
           THEN /\ CallsOf(TranslateCalls) = {1}
                /\ run.translated = calls[1].val
           ELSE /\ CallsOf(TranslateCalls) = {1, 2}
                /\ calls[2].fn = ExpectedFallback
                /\ run.translate_error # NoError
                /\ calls[2].raised =>
                     /\ run.translated = <<>>
                     /\ run.translate_error = "OpenAI translation failed"
                /\ ~calls[2].raised =>
                     /\ run.translated = calls[2].val
                     /\ run.translate_error = REMOTE_FAILED
                     /\ calls[2].fn \in nonEmpty => run.translated # <<>>

\* C8: with backend choice remote, one /translate call and on its failure one
\* fallback chosen by preference and key; a fallback that raises leaves the
\* translated text empty, and every fallback that returns leaves a non-empty
\* translated text with the remote-failure message.
C8_FallbackLeavesNonEmpty == RemoteResolution({"translate_with_openai", "translate_local"})

\* C8 amended: with backend choice remote, a successful /translate gives the
\* translated text and is the only translation call; a failed one is followed
\* by exactly one fallback chosen by preference and key; a fallback that raises
\* leaves the translated text empty and its message recorded; a fallback that
\* returns leaves its result with the remote-failure message, and that result
\* is non-empty when the fallback is the local identity.
C8_RemoteResolution == RemoteResolution({"translate_local"})

\* C8 witness: /translate failed and the language-model fallback returned a blank text
C8_Witness ==
    /\ AfterTranslation
    /\ IsRemote(settings.backend_choice)
    /\ calls[1].raised
    /\ calls[2].fn = "translate_with_openai"
    /\ ~calls[2].raised
    /\ run.translated = <<>>
    /\ run.translate_error = REMOTE_FAILED

\* C9: a reply-generation call is made only once translation resolution has
\* finished with a non-empty translated text, after every translation call;
\* with an empty translated text no such call is made and the reply stays empty.
C9_ReplyAfterTranslation ==
    /\ \A i \in CallsOf(ReplyCalls) :
         /\ AfterReply
         /\ run.translated # <<>>
         /\ \A j \in CallsOf(TranslateCalls) : j < i
    /\ (AfterReply /\ run.translated = <<>>) =>
         /\ CallsOf(ReplyCalls) = {}
         /\ run.suggested = <<>>

\* C9 witness: a reply was requested, translation ended empty, the reply block was passed
C9_Witness ==
    /\ pc = "eval"
    /\ form.want_generate
    /\ run.translated = <<>>
    /\ CallsOf(TranslateCalls) # {}

AllDone == \A p \in Sessions : sess[p].pc = "done"

\* C10: when both saves are done, the log holds the earlier list and both new
\* entries in write order if the saves did not overlap, and the earlier list
\* and only the last writer's entry if both had read before either wrote.
C10_LostUpdate ==
    AllDone =>
        IF overlap
        THEN ReadData(file).val = Append(base, sess[writers[2]].entry)
        ELSE ReadData(file).val = base \o <<sess[writers[1]].entry, sess[writers[2]].entry>>

\* C10 witness: both saves done and the first writer's entry is gone
C10_Witness ==
    /\ AllDone
    /\ overlap
    /\ sess[1].entry # sess[2].entry
    /\ Len(ReadData(file).val) = Len(base) + 1
    /\ sess[writers[1]].entry \notin {ReadData(file).val[i] : i \in 1..Len(ReadData(file).val)}

====
